---- MODULE Spec2Model ----
(***************************************************************************)
(* Model of qlib/backtest/high_performance_ds.py: the quote backends       *)
(* (PandasQuote, CN1min_NumpyQuote) and the order-indicator backends       *)
(* (PandasOrderIndicator, NumpyOrderIndicator) with their single metrics.  *)
(*                                                                         *)
(* Python objects are records tagged by "cls".  Labels s1, s2 are the      *)
(* integers 1, 2 (an ordered label axis); timestamps are minutes 1, 2, ... *)
(* Floats are records that are either NaN or an integer value.             *)
(***************************************************************************)
EXTENDS Integers, Sequences, FiniteSets, TLC

VARIABLES
    kind,      \* the backend of every object of this run: "pandas" or "numpy"
    data,      \* data[i]: the OrderedDict self.data of order indicator i
    assigned,  \* history: assigned[i][name] = what last wrote data[i][name]
    quote,     \* self.data of the quote backend: stock_id -> table
    pc,        \* "idle" (caller about to call) or "returned" (a call returned)
    ret,       \* the call that just returned: operation, arguments, outcome
    nops       \* number of calls made so far that could write an indicator

vars == <<kind, data, assigned, quote, pc, ret, nops>>

(***************************************************************************)
(* Bounds of the model.                                                    *)
(***************************************************************************)
MaxOps == 3

(***************************************************************************)
(* Floats.                                                                 *)
(***************************************************************************)
NaN == [nan |-> TRUE, v |-> 0]
Num(n) == [nan |-> FALSE, v |-> n]

ValAdd(a, b) == IF a.nan \/ b.nan THEN NaN ELSE Num(a.v + b.v)
ValSub(a, b) == IF a.nan \/ b.nan THEN NaN ELSE Num(a.v - b.v)

(***************************************************************************)
(* Python values.                                                          *)
(***************************************************************************)
None == [cls |-> "NoneType"]
Float(x) == [cls |-> "float", v |-> x]
Dict(m) == [cls |-> "dict", map |-> m]
Raise(type) == [cls |-> "Exception", type |-> type]
IsExc(o) == o.cls = "Exception"

Kinds == {"pandas", "numpy"}
Inds == {"target", "ind1", "ind2"}
Names == {"x", "y"}
Labels == {1, 2}

EmptyMap == [l \in {} |-> NaN]
\* the mappings callers assign: {}, {s1: 5}, {s1: NaN, s2: 3}
Mappings ==
    { EmptyMap,
      [l \in {1} |-> Num(5)],
      [l \in {1, 2} |-> IF l = 1 THEN NaN ELSE Num(3)] }
FillValues == {None, Float(Num(0))}
\* the scalars of scalar arithmetic
Scalars == {Num(5), Num(0)}

RECURSIVE SortedSeq(_)
SortedSeq(S) ==
    IF S = {} THEN <<>>
    ELSE LET m == CHOOSE a \in S : \A b \in S : a <= b
         IN <<m>> \o SortedSeq(S \ {m})

(***************************************************************************)
(* Labelled series: a sequence of labels (index) and the values at the     *)
(* same positions.  Used for pd.Series and for IndexData.Series.           *)
(***************************************************************************)
LabelsOf(s) == {s.index[i] : i \in 1..Len(s.index)}
PosOf(s, l) == CHOOSE i \in 1..Len(s.index) : s.index[i] = l
\* the value at label l after reindexing to an index that holds l
Reindexed(s, l) == IF l \in LabelsOf(s) THEN s.values[PosOf(s, l)] ELSE NaN
\* the series of class cls over the labels of idx, val[l] at label l
MkSeries(cls, idx, val) ==
    [cls |-> cls, index |-> idx, values |-> [i \in 1..Len(idx) |-> val[idx[i]]]]

\* pd.Series(dict)
pd_Series(m) == MkSeries("pd.Series", SortedSeq(DOMAIN m), m)
\* pd.Series()
pd_Series_empty == [cls |-> "pd.Series", index |-> <<>>, values |-> <<>>]

\* pd.Series.add(other, fill_value): outer alignment; a NaN facing a number
\* is filled; a label missing on both sides after alignment stays NaN
pd_Series_add(a, b, fill_value) ==
    LET filled == fill_value.cls # "NoneType"
        val(l) ==
            LET av == Reindexed(a, l)
                bv == Reindexed(b, l)
                a2 == IF filled /\ av.nan /\ ~bv.nan THEN fill_value.v ELSE av
                b2 == IF filled /\ bv.nan /\ ~av.nan THEN fill_value.v ELSE bv
            IN ValAdd(a2, b2)
    IN MkSeries("pd.Series", SortedSeq(LabelsOf(a) \cup LabelsOf(b)),
                [l \in LabelsOf(a) \cup LabelsOf(b) |-> val(l)])

\* pd.Series + pd.Series / pd.Series - pd.Series
pd_Series_plus(a, b) == pd_Series_add(a, b, None)
pd_Series_minus(a, b) ==
    MkSeries("pd.Series", SortedSeq(LabelsOf(a) \cup LabelsOf(b)),
             [l \in LabelsOf(a) \cup LabelsOf(b) |-> ValSub(Reindexed(a, l), Reindexed(b, l))])
\* pd.Series + scalar, pd.Series - scalar, scalar - pd.Series
pd_Series_plus_scalar(a, x) ==
    MkSeries("pd.Series", a.index, [l \in LabelsOf(a) |-> ValAdd(Reindexed(a, l), x)])
pd_Series_minus_scalar(a, x) ==
    MkSeries("pd.Series", a.index, [l \in LabelsOf(a) |-> ValSub(Reindexed(a, l), x)])
pd_Series_rminus_scalar(a, x) ==
    MkSeries("pd.Series", a.index, [l \in LabelsOf(a) |-> ValSub(x, Reindexed(a, l))])
\* pd.Series.count(): the number of entries that are not NaN
SeriesCount(a) == Cardinality({i \in 1..Len(a.index) : ~a.values[i].nan})

(***************************************************************************)
(* PandasSingleMetric (and its base SingleMetric).                         *)
(***************************************************************************)
NotImplemented == [cls |-> "NotImplementedType"]

\* PandasSingleMetric.__init__: a dict becomes a pd.Series, a pd.Series is
\* kept, anything else is a ValueError
PandasSingleMetric(metric) ==
    IF metric.cls = "dict"
    THEN [cls |-> "PandasSingleMetric", metric |-> pd_Series(metric.map)]
    ELSE IF metric.cls = "pd.Series"
    THEN [cls |-> "PandasSingleMetric", metric |-> metric]
    ELSE Raise("ValueError")

SingleMetric___add__(self, other) ==
    IF other.cls = "float"
    THEN PandasSingleMetric(pd_Series_plus_scalar(self.metric, other.v))
    ELSE IF other.cls = self.cls
    THEN PandasSingleMetric(pd_Series_plus(self.metric, other.metric))
    ELSE NotImplemented

SingleMetric___sub__(self, other) ==
    IF other.cls = "float"
    THEN PandasSingleMetric(pd_Series_minus_scalar(self.metric, other.v))
    ELSE IF other.cls = self.cls
    THEN PandasSingleMetric(pd_Series_minus(self.metric, other.metric))
    ELSE NotImplemented

\* a reflected subtraction that forgets to swap its operands
SingleMetric___rsub___unswapped(self, other) ==
    IF other.cls = "float"
    THEN PandasSingleMetric(pd_Series_minus_scalar(self.metric, other.v))
    ELSE IF other.cls = self.cls
    THEN PandasSingleMetric(pd_Series_minus(self.metric, other.metric))
    ELSE NotImplemented
SingleMetric___rsub__(self, other) ==
    IF other.cls = "float"
    THEN PandasSingleMetric(pd_Series_rminus_scalar(self.metric, other.v))
    ELSE IF other.cls = self.cls
    THEN PandasSingleMetric(pd_Series_minus(other.metric, self.metric))
    ELSE NotImplemented

\* BaseSingleMetric.__radd__: return self + other
BaseSingleMetric___radd__(self, other) == SingleMetric___add__(self, other)

\* PandasSingleMetric.count
PandasSingleMetric_count(self) == Float(Num(SeriesCount(self.metric)))

\* PandasSingleMetric.add: other.metric is read, so other must be a metric
PandasSingleMetric_add(self, other, fill_value) ==
    IF other.cls # "PandasSingleMetric" THEN Raise("AttributeError")
    ELSE PandasSingleMetric(pd_Series_add(self.metric, other.metric, fill_value))

(***************************************************************************)
(* IndexData.Series of qlib/utils/index_data.py, the flat indexed array of *)
(* the performance backend (its source is not part of src/).               *)
(***************************************************************************)
\* IndexData.Series(dict): labels in ascending order, values beside them
IndexData_Series(metric) ==
    MkSeries("IndexData.Series", SortedSeq(DOMAIN metric.map), metric.map)
\* IndexData.Series()
IndexData_Series_empty == [cls |-> "IndexData.Series", index |-> <<>>, values |-> <<>>]

\* IndexData.Series.add(other, fill_value): union of the labels; a side that
\* is absent or NaN counts as fill_value (left missing when it is unset)
IndexData_add(self, other, fill_value) ==
    IF other.cls # "IndexData.Series" THEN Raise("AttributeError")
    ELSE LET fix(a) == IF a.nan /\ fill_value.cls # "NoneType" THEN fill_value.v ELSE a
         IN MkSeries("IndexData.Series", SortedSeq(LabelsOf(self) \cup LabelsOf(other)),
                     [l \in LabelsOf(self) \cup LabelsOf(other) |->
                         ValAdd(fix(Reindexed(self, l)), fix(Reindexed(other, l)))])

\* IndexData.Series.to_pd_series()
to_pd_series(self) == [cls |-> "pd.Series", index |-> self.index, values |-> self.values]

\* the operators of IndexData.Series: scalar broadcast, or alignment on the
\* union of the labels with NaN where one side is missing
IndexData___add__(self, other) ==
    IF other.cls = "float"
    THEN MkSeries("IndexData.Series", self.index,
                  [l \in LabelsOf(self) |-> ValAdd(Reindexed(self, l), other.v)])
    ELSE IF other.cls = self.cls THEN IndexData_add(self, other, None)
    ELSE NotImplemented
IndexData___sub__(self, other) ==
    IF other.cls = "float"
    THEN MkSeries("IndexData.Series", self.index,
                  [l \in LabelsOf(self) |-> ValSub(Reindexed(self, l), other.v)])
    ELSE IF other.cls = self.cls
    THEN MkSeries("IndexData.Series", SortedSeq(LabelsOf(self) \cup LabelsOf(other)),
                  [l \in LabelsOf(self) \cup LabelsOf(other) |->
                      ValSub(Reindexed(self, l), Reindexed(other, l))])
    ELSE NotImplemented
IndexData___rsub__(self, other) ==
    IF other.cls = "float"
    THEN MkSeries("IndexData.Series", self.index,
                  [l \in LabelsOf(self) |-> ValSub(other.v, Reindexed(self, l))])
    ELSE NotImplemented
IndexData_count(self) == Float(Num(SeriesCount(self)))

(***************************************************************************)
(* Python's dispatch of a + b and a - b over floats and metrics.           *)
(***************************************************************************)
IsMetric(o) == o.cls \in {"PandasSingleMetric", "IndexData.Series"}

Metric___add__(self, other) ==
    IF self.cls = "PandasSingleMetric" THEN SingleMetric___add__(self, other)
    ELSE IndexData___add__(self, other)
Metric___radd__(self, other) ==
    IF self.cls = "PandasSingleMetric" THEN BaseSingleMetric___radd__(self, other)
    ELSE IndexData___add__(self, other)
Metric___sub__(self, other) ==
    IF self.cls = "PandasSingleMetric" THEN SingleMetric___sub__(self, other)
    ELSE IndexData___sub__(self, other)
Metric___rsub__(self, other) ==
    IF self.cls = "PandasSingleMetric" THEN SingleMetric___rsub__(self, other)
    ELSE IndexData___rsub__(self, other)

Py_add(a, b) ==
    IF a.cls = "float" /\ b.cls = "float" THEN Float(ValAdd(a.v, b.v))
    ELSE LET l == IF IsMetric(a) THEN Metric___add__(a, b) ELSE NotImplemented
             r == IF IsMetric(b) THEN Metric___radd__(b, a) ELSE NotImplemented
         IN IF l # NotImplemented THEN l
            ELSE IF r # NotImplemented THEN r
            ELSE Raise("TypeError")

Py_sub(a, b) ==
    IF a.cls = "float" /\ b.cls = "float" THEN Float(ValSub(a.v, b.v))
    ELSE LET l == IF IsMetric(a) THEN Metric___sub__(a, b) ELSE NotImplemented
             r == IF IsMetric(b) THEN Metric___rsub__(b, a) ELSE NotImplemented
         IN IF l # NotImplemented THEN l
            ELSE IF r # NotImplemented THEN r
            ELSE Raise("TypeError")

Py_count(a) ==
    IF a.cls = "PandasSingleMetric" THEN PandasSingleMetric_count(a)
    ELSE IF a.cls = "IndexData.Series" THEN IndexData_count(a)
    ELSE Raise("AttributeError")

(***************************************************************************)
(* OrderedDict: a sequence of [k, v] items in insertion order.             *)
(***************************************************************************)
OD_keys(d) == {d[i].k : i \in 1..Len(d)}
OD_get(d, k) == d[CHOOSE i \in 1..Len(d) : d[i].k = k].v
OD_set(d, k, v) ==
    IF k \in OD_keys(d)
    THEN [i \in 1..Len(d) |-> IF d[i].k = k THEN [k |-> k, v |-> v] ELSE d[i]]
    ELSE Append(d, [k |-> k, v |-> v])

(***************************************************************************)
(* The functions callers hand to transfer: declared parameter names and    *)
(* what the body computes from them.                                       *)
(***************************************************************************)
Str(s) == [cls |-> "str", v |-> s]
Funcs ==
    { [name |-> "add_xy", params |-> <<"x", "y">>],    \* lambda x, y: x + y
      [name |-> "rsub_x", params |-> <<"x">>],         \* lambda x: 5 - x
      [name |-> "count_y", params |-> <<"y">>] }       \* lambda y: y.count()

\* func(**func_kwargs), func_kwargs looked up in the OrderedDict d
CallFunc(func, d) ==
    IF func.name = "add_xy" THEN Py_add(OD_get(d, "x"), OD_get(d, "y"))
    ELSE IF func.name = "rsub_x" THEN Py_sub(Float(Num(5)), OD_get(d, "x"))
    ELSE Py_count(OD_get(d, "y"))

(***************************************************************************)
(* PandasOrderIndicator.  Each method takes the indicator's OrderedDict d  *)
(* and gives the new OrderedDict and what the call returns or raises.      *)
(***************************************************************************)
Result(d, out) == [data |-> d, out |-> out]

\* mutant: assign keeps the metric a name already has
PandasOrderIndicator_assign_keep(d, col, metric) ==
    LET m == PandasSingleMetric(metric)
    IN IF IsExc(m) THEN Result(d, m)
       ELSE IF col \in OD_keys(d) THEN Result(d, None)
       ELSE Result(OD_set(d, col, m), None)

PandasOrderIndicator_assign(d, col, metric) ==
    LET m == PandasSingleMetric(metric)
    IN IF IsExc(m) THEN Result(d, m) ELSE Result(OD_set(d, col, m), None)

\* the positions of func's declared parameters that d holds no metric for
MissingParams(d, func) == {i \in 1..Len(func.params) : func.params[i] \notin OD_keys(d)}

\* mutant: the metrics are looked up with a default, so func is called with
\* None for a missing name and fails inside
PandasOrderIndicator_transfer_get(d, func, new_col) ==
    IF MissingParams(d, func) # {}
    THEN [data |-> d, out |-> Raise("TypeError"), called |-> TRUE]
    ELSE LET tmp_metric == CallFunc(func, d)
         IN IF IsExc(tmp_metric) THEN [data |-> d, out |-> tmp_metric, called |-> TRUE]
            ELSE IF new_col # None
            THEN [data |-> OD_set(d, new_col.v, tmp_metric), out |-> None, called |-> TRUE]
            ELSE [data |-> d, out |-> tmp_metric, called |-> TRUE]

PandasOrderIndicator_transfer(d, func, new_col) ==
    IF MissingParams(d, func) # {}
    THEN [data |-> d, out |-> Raise("KeyError"), called |-> FALSE]
    ELSE LET tmp_metric == CallFunc(func, d)
         IN IF IsExc(tmp_metric) THEN [data |-> d, out |-> tmp_metric, called |-> TRUE]
            ELSE IF new_col # None
            THEN [data |-> OD_set(d, new_col.v, tmp_metric), out |-> None, called |-> TRUE]
            ELSE [data |-> d, out |-> tmp_metric, called |-> TRUE]

PandasOrderIndicator_get_metric_series(d, metric) ==
    IF metric \in OD_keys(d)
    THEN IF OD_get(d, metric).cls = "PandasSingleMetric"
         THEN OD_get(d, metric).metric
         ELSE Raise("AttributeError")
    ELSE pd_Series_empty

PandasOrderIndicator_to_series(d) ==
    IF \E i \in 1..Len(d) : d[i].v.cls # "PandasSingleMetric"
    THEN Raise("AttributeError")
    ELSE [cls |-> "dict", items |-> [i \in 1..Len(d) |-> [k |-> d[i].k, v |-> d[i].v.metric]]]

\* the inner loop of sum_all_indicators: the rest of the indicators list
\* added to tmp_metric; D is the data of every indicator
RECURSIVE Pandas_sum_metric(_, _, _, _, _)
Pandas_sum_metric(D, indicators, metric, fill_value, tmp_metric) ==
    IF indicators = <<>> THEN tmp_metric
    ELSE IF metric \notin OD_keys(D[Head(indicators)]) THEN Raise("KeyError")
    ELSE LET nxt == PandasSingleMetric_add(tmp_metric, OD_get(D[Head(indicators)], metric),
                                           fill_value)
         IN IF IsExc(nxt) THEN nxt
            ELSE Pandas_sum_metric(D, Tail(indicators), metric, fill_value, nxt)

\* the outer loop: the rest of the metric names; done = the names assigned
RECURSIVE Pandas_sum_loop(_, _, _, _, _, _)
Pandas_sum_loop(D, order_indicator, indicators, metrics, fill_value, done) ==
    IF metrics = <<>> THEN [data |-> D, out |-> None, done |-> done]
    ELSE LET tmp_metric == Pandas_sum_metric(D, indicators, Head(metrics), fill_value,
                                             PandasSingleMetric(Dict(EmptyMap)))
         IN IF IsExc(tmp_metric) THEN [data |-> D, out |-> tmp_metric, done |-> done]
            ELSE LET a == PandasOrderIndicator_assign(D[order_indicator], Head(metrics),
                                                      tmp_metric.metric)
                 IN Pandas_sum_loop([D EXCEPT ![order_indicator] = a.data], order_indicator,
                                    indicators, Tail(metrics), fill_value,
                                    done \cup {Head(metrics)})

\* isinstance(metrics, str): metrics = [metrics]
MetricList(metrics) == IF metrics.cls = "str" THEN <<metrics.v>> ELSE metrics.items

\* mutant: an empty indicators list returns at once, assigning nothing
PandasOrderIndicator_sum_all_indicators_skip(D, order_indicator, indicators, metrics, fill_value) ==
    IF indicators = <<>> THEN [data |-> D, out |-> None, done |-> {}]
    ELSE Pandas_sum_loop(D, order_indicator, indicators, MetricList(metrics), fill_value, {})

PandasOrderIndicator_sum_all_indicators(D, order_indicator, indicators, metrics, fill_value) ==
    Pandas_sum_loop(D, order_indicator, indicators, MetricList(metrics), fill_value, {})

(***************************************************************************)
(* NumpyOrderIndicator.                                                    *)
(***************************************************************************)
NumpyOrderIndicator_assign(d, col, metric) ==
    Result(OD_set(d, col, IndexData_Series(metric)), None)

\* mutant: the result is returned even when it is stored under new_col
NumpyOrderIndicator_transfer_both(d, func, new_col) ==
    IF MissingParams(d, func) # {}
    THEN [data |-> d, out |-> Raise("KeyError"), called |-> FALSE]
    ELSE LET tmp_metric == CallFunc(func, d)
         IN IF IsExc(tmp_metric) THEN [data |-> d, out |-> tmp_metric, called |-> TRUE]
            ELSE IF new_col # None
            THEN [data |-> OD_set(d, new_col.v, tmp_metric), out |-> tmp_metric, called |-> TRUE]
            ELSE [data |-> d, out |-> tmp_metric, called |-> TRUE]

NumpyOrderIndicator_transfer(d, func, new_col) ==
    IF MissingParams(d, func) # {}
    THEN [data |-> d, out |-> Raise("KeyError"), called |-> FALSE]
    ELSE LET tmp_metric == CallFunc(func, d)
         IN IF IsExc(tmp_metric) THEN [data |-> d, out |-> tmp_metric, called |-> TRUE]
            ELSE IF new_col # None
            THEN [data |-> OD_set(d, new_col.v, tmp_metric), out |-> None, called |-> TRUE]
            ELSE [data |-> d, out |-> tmp_metric, called |-> TRUE]

NumpyOrderIndicator_get_metric_series(d, metric) ==
    IF metric \notin OD_keys(d) THEN Raise("KeyError")
    ELSE IF OD_get(d, metric).cls = "IndexData.Series"
    THEN to_pd_series(OD_get(d, metric))
    ELSE Raise("AttributeError")

NumpyOrderIndicator_to_series(d) ==
    IF \E i \in 1..Len(d) : IsExc(NumpyOrderIndicator_get_metric_series(d, d[i].k))
    THEN Raise("AttributeError")
    ELSE [cls |-> "dict",
          items |-> [i \in 1..Len(d) |->
                        [k |-> d[i].k, v |-> NumpyOrderIndicator_get_metric_series(d, d[i].k)]]]

RECURSIVE Numpy_sum_metric(_, _, _, _, _)
Numpy_sum_metric(D, indicators, metric, fill_value, tmp_metric) ==
    IF indicators = <<>> THEN tmp_metric
    ELSE IF metric \notin OD_keys(D[Head(indicators)]) THEN Raise("KeyError")
    ELSE LET nxt == IndexData_add(tmp_metric, OD_get(D[Head(indicators)], metric), fill_value)
         IN IF IsExc(nxt) THEN nxt
            ELSE Numpy_sum_metric(D, Tail(indicators), metric, fill_value, nxt)

RECURSIVE Numpy_sum_loop(_, _, _, _, _, _)
Numpy_sum_loop(D, order_indicator, indicators, metrics, fill_value, done) ==
    IF metrics = <<>> THEN [data |-> D, out |-> None, done |-> done]
    ELSE LET tmp_metric == Numpy_sum_metric(D, indicators, Head(metrics), fill_value,
                                            IndexData_Series_empty)
         IN IF IsExc(tmp_metric) THEN [data |-> D, out |-> tmp_metric, done |-> done]
            ELSE Numpy_sum_loop(
                     [D EXCEPT ![order_indicator] = OD_set(@, Head(metrics), tmp_metric)],
                     order_indicator, indicators, Tail(metrics), fill_value,
                     done \cup {Head(metrics)})

\* a sum that starts from a fresh target, dropping what it held
NumpyOrderIndicator_sum_all_indicators_reset(D, order_indicator, indicators, metrics, fill_value) ==
    Numpy_sum_loop([D EXCEPT ![order_indicator] = <<>>], order_indicator, indicators,
                   MetricList(metrics), fill_value, {})

\* mutant: fill_value is not handed to add
NumpyOrderIndicator_sum_all_indicators_nofill(D, order_indicator, indicators, metrics, fill_value) ==
    Numpy_sum_loop(D, order_indicator, indicators, MetricList(metrics), None, {})

NumpyOrderIndicator_sum_all_indicators(D, order_indicator, indicators, metrics, fill_value) ==
    Numpy_sum_loop(D, order_indicator, indicators, MetricList(metrics), fill_value, {})

(***************************************************************************)
(* Quote tables.  A table has the time labels (ascending), the field names *)
(* and one row of values per time label.                                   *)
(***************************************************************************)
Stocks == {"A", "B", "C"}
Times == 1..4
Fields == <<"$close", "$volume">>
Methods ==
    { None, Str("sum"), Str("mean"), Str("last"), Str("all"), Str("any"),
      [cls |-> "function", v |-> "ts_data_last"], Str("median") }

\* the value of a field of a stock at a minute in the input panel
PanelValue(t, c) == IF c = 1 THEN Num(9 + t) ELSE IF t = 2 THEN NaN ELSE Num(t - 1)
Table(times) ==
    [index |-> SortedSeq(times), columns |-> Fields,
     values |-> [r \in 1..Cardinality(times) |->
                    [c \in 1..Len(Fields) |-> PanelValue(SortedSeq(times)[r], c)]]]
\* the panels quote_df the backends are built from, grouped by instrument
QuoteDfs ==
    { [s \in {"A"} |-> Table({1, 2, 3})],
      [s \in {"A", "C"} |-> IF s = "A" THEN Table({1, 3, 4}) ELSE Table({2})] }

\* PandasQuote.__init__ and CN1min_NumpyQuote.__init__: one table per stock
PandasQuote(quote_df) == [s \in DOMAIN quote_df |-> quote_df[s]]
CN1min_NumpyQuote(quote_df) == [s \in DOMAIN quote_df |-> quote_df[s]]

get_all_stock(q) == DOMAIN q

index_map(tbl) == [t \in {tbl.index[i] : i \in 1..Len(tbl.index)} |->
                      CHOOSE i \in 1..Len(tbl.index) : tbl.index[i] = t]
columns_map(tbl) == [f \in {tbl.columns[i] : i \in 1..Len(tbl.columns)} |->
                        CHOOSE i \in 1..Len(tbl.columns) : tbl.columns[i] = f]

\* qlib.utils.time.if_single_data: start and end name one point of the
\* native frequency
if_single_data(start_time, end_time) == start_time = end_time

\* the positions of the rows whose label lies in [start_time, end_time]
RowsIn(tbl, start_time, end_time) ==
    SelectSeq([i \in 1..Len(tbl.index) |-> i],
              LAMBDA i : start_time <= tbl.index[i] /\ tbl.index[i] <= end_time)
\* IndexData.DataFrame.loc(start, end): the 2-D slice
loc_rows(tbl, start_time, end_time) ==
    LET rows == RowsIn(tbl, start_time, end_time)
    IN [cls |-> "ndarray", values |-> [k \in 1..Len(rows) |-> tbl.values[rows[k]]]]
\* IndexData.DataFrame.loc(start, end, fields): the 1-D slice of one column
loc_field(tbl, start_time, end_time, fields) ==
    LET rows == RowsIn(tbl, start_time, end_time)
    IN [cls |-> "IndexData.Series",
        index |-> [k \in 1..Len(rows) |-> tbl.index[rows[k]]],
        values |-> [k \in 1..Len(rows) |-> tbl.values[rows[k]][columns_map(tbl)[fields.v]]]]

RECURSIVE NanSum(_)
NanSum(seq) ==
    IF seq = <<>> THEN 0
    ELSE (IF Head(seq).nan THEN 0 ELSE Head(seq).v) + NanSum(Tail(seq))
\* a float that is the quotient of two integers
Quotient(n, d) ==
    IF n % d = 0 THEN Float(Num(n \div d)) ELSE [cls |-> "float", num |-> n, den |-> d]
Bool(b) == [cls |-> "bool", v |-> b]
\* truth of a float: NaN and every non-zero number are true
Truthy(a) == a.nan \/ a.v # 0
\* a != b on floats: NaN differs from everything, itself included
np_ne(a, b) == a.nan \/ b.nan \/ a.v # b.v

\* CN1min_NumpyQuote._agg_data
CN1min_NumpyQuote__agg_data(seq, method) ==
    IF method = Str("sum") THEN Float(Num(NanSum(seq)))
    ELSE IF method = Str("mean")
    THEN LET n == Len(SelectSeq(seq, LAMBDA a : ~a.nan))
         IN IF n = 0 THEN Float(NaN) ELSE Quotient(NanSum(seq), n)
    ELSE IF method = Str("last") THEN Float(seq[Len(seq)])
    ELSE IF method = Str("all") THEN Bool(\A i \in 1..Len(seq) : Truthy(seq[i]))
    ELSE IF method = Str("any") THEN Bool(\E i \in 1..Len(seq) : Truthy(seq[i]))
    ELSE IF method = [cls |-> "function", v |-> "ts_data_last"]
    THEN LET valid_data == SelectSeq(seq, LAMBDA a : np_ne(a, NaN))
         IN IF Len(valid_data) = 0 THEN None ELSE Float(valid_data[1])
    ELSE Raise("ValueError")

\* the multi-timestamp branch of CN1min_NumpyQuote.get_data
CN1min_multi_data(q, stock_id, start_time, end_time, fields, method) ==
    IF fields = None /\ method = None
    THEN LET stock_data == loc_rows(q[stock_id], start_time, end_time)
         IN IF Len(stock_data.values) = 0 THEN None ELSE stock_data
    ELSE IF fields # None /\ method = None
    THEN LET stock_data == loc_field(q[stock_id], start_time, end_time, fields)
         IN IF Len(stock_data.values) = 0 THEN None ELSE stock_data
    ELSE LET stock_data == loc_field(q[stock_id], start_time, end_time, fields)
         IN IF Len(stock_data.values) = 0 THEN None
            ELSE IF Len(stock_data.values) = 1 THEN Float(stock_data.values[1])
            ELSE CN1min_NumpyQuote__agg_data(stock_data.values, method)

\* the single-timestamp branch of CN1min_NumpyQuote.get_data
CN1min_single_data(q, stock_id, start_time, fields) ==
    IF start_time \notin DOMAIN index_map(q[stock_id]) THEN None
    ELSE IF fields = None
    THEN [cls |-> "ndarray",
          values |-> q[stock_id].values[index_map(q[stock_id])[start_time]]]
    ELSE Float(q[stock_id].values[index_map(q[stock_id])[start_time]]
                                 [columns_map(q[stock_id])[fields.v]])

\* mutant: the stock id is checked before the arguments are
CN1min_NumpyQuote_get_data_late_check(q, stock_id, start_time, end_time, fields, method) ==
    IF stock_id \notin get_all_stock(q) THEN None
    ELSE IF fields = None /\ method # None THEN Raise("ValueError")
    ELSE IF if_single_data(start_time, end_time)
    THEN CN1min_single_data(q, stock_id, start_time, fields)
    ELSE CN1min_multi_data(q, stock_id, start_time, end_time, fields, method)

\* mutant: a single timestamp takes the range path like any other
CN1min_NumpyQuote_get_data_no_fast_path(q, stock_id, start_time, end_time, fields, method) ==
    IF fields = None /\ method # None THEN Raise("ValueError")
    ELSE IF stock_id \notin get_all_stock(q) THEN None
    ELSE CN1min_multi_data(q, stock_id, start_time, end_time, fields, method)

\* CN1min_NumpyQuote.get_data
CN1min_NumpyQuote_get_data(q, stock_id, start_time, end_time, fields, method) ==
    IF fields = None /\ method # None THEN Raise("ValueError")
    ELSE IF stock_id \notin get_all_stock(q) THEN None
    ELSE IF if_single_data(start_time, end_time)
    THEN CN1min_single_data(q, stock_id, start_time, fields)
    ELSE CN1min_multi_data(q, stock_id, start_time, end_time, fields, method)

\* the reductions of the reference backend: sum and mean skip NaN, last
\* keeps it, the last-non-missing variant gives the first value that is not
\* NaN from the front of the slice, or None
resam_method(seq, method) ==
    IF method = Str("sum") THEN Float(Num(NanSum(seq)))
    ELSE IF method = Str("mean")
    THEN LET n == Len(SelectSeq(seq, LAMBDA a : ~a.nan))
         IN IF n = 0 THEN Float(NaN) ELSE Quotient(NanSum(seq), n)
    ELSE IF method = Str("last") THEN Float(seq[Len(seq)])
    ELSE IF method = Str("all") THEN Bool(\A i \in 1..Len(seq) : Truthy(seq[i]))
    ELSE IF method = Str("any") THEN Bool(\E i \in 1..Len(seq) : Truthy(seq[i]))
    ELSE IF method = [cls |-> "function", v |-> "ts_data_last"]
    THEN LET valid_data == SelectSeq(seq, LAMBDA a : ~a.nan)
         IN IF Len(valid_data) = 0 THEN None ELSE Float(valid_data[1])
    ELSE Raise("ValueError")

\* qlib.utils.resam.resam_ts_data on a table (fields = None) or on one of
\* its columns: the rows in [start_time, end_time], None when there are
\* none, reduced by method when one is given
resam_ts_data(tbl, fields, start_time, end_time, method) ==
    LET rows == loc_rows(tbl, start_time, end_time)
    IN IF Len(rows.values) = 0 THEN None
       ELSE IF fields = None THEN [rows EXCEPT !.cls = "pd.DataFrame"]
       ELSE LET col == loc_field(tbl, start_time, end_time, fields)
            IN IF method = None THEN [col EXCEPT !.cls = "pd.Series"]
               ELSE resam_method(col.values, method)

\* PandasQuote.get_data
PandasQuote_get_data(q, stock_id, start_time, end_time, fields, method) ==
    IF fields = None /\ method # None THEN Raise("ValueError")
    ELSE IF stock_id \notin DOMAIN q THEN Raise("KeyError")
    ELSE LET stock_data == resam_ts_data(q[stock_id], fields, start_time, end_time, method)
         IN IF stock_data = None THEN None
            ELSE IF stock_data.cls \in {"float", "bool"} THEN stock_data
            ELSE IF stock_data.cls = "pd.Series"
            THEN [stock_data EXCEPT !.cls = "IndexData.Series"]
            ELSE IF stock_data.cls = "pd.DataFrame"
            THEN [cls |-> "ndarray", values |-> stock_data.values]
            ELSE IF IsExc(stock_data) THEN stock_data
            ELSE Raise("ValueError")

(***************************************************************************)
(* The state machine.  A caller makes one call at a time: an action runs   *)
(* the whole method and leaves its outcome in ret; Return hands control    *)
(* back to the caller.                                                     *)
(***************************************************************************)
NoCall == [op |-> "none"]
NoQuote == [s \in {} |-> None]
Unwritten == [cls |-> "unwritten"]
Derived == [cls |-> "derived"]

NewCols == {None} \cup {Str(n) : n \in Names}
MetricArgs ==
    {Str(n) : n \in Names}
    \cup {[cls |-> "list", items |-> <<"x", "y">>], [cls |-> "list", items |-> <<"y", "x">>]}
\* the indicators lists: up to two distinct indicators, in either order
IndicatorLists ==
    {<<>>} \cup {<<i>> : i \in Inds}
    \cup {l \in {<<i, j>> : i, j \in Inds} : l[1] # l[2]}

Init ==
    /\ kind \in Kinds
    /\ data = [i \in Inds |-> <<>>]
    /\ assigned = [i \in Inds |-> [n \in Names |-> Unwritten]]
    /\ quote = NoQuote
    /\ pc = "idle"
    /\ ret = NoCall
    /\ nops = 0

\* indicator.assign(col, metric)
Assign(i, col, m) ==
    /\ pc = "idle" /\ nops < MaxOps
    /\ LET r == IF kind = "pandas"
                THEN PandasOrderIndicator_assign(data[i], col, Dict(m))
                ELSE NumpyOrderIndicator_assign(data[i], col, Dict(m))
       IN /\ data' = [data EXCEPT ![i] = r.data]
          /\ assigned' = [assigned EXCEPT ![i][col] = Dict(m)]
          /\ ret' = [op |-> "assign", ind |-> i, args |-> [col |-> col, metric |-> Dict(m)],
                     out |-> r.out]
    /\ pc' = "returned"
    /\ nops' = nops + 1
    /\ UNCHANGED <<kind, quote>>

\* indicator.transfer(func, new_col)
Transfer(i, func, new_col) ==
    /\ pc = "idle"
    /\ new_col # None => nops < MaxOps
    /\ LET r == IF kind = "pandas"
                THEN PandasOrderIndicator_transfer(data[i], func, new_col)
                ELSE NumpyOrderIndicator_transfer(data[i], func, new_col)
       IN /\ data' = [data EXCEPT ![i] = r.data]
          /\ assigned' = IF new_col # None /\ ~IsExc(r.out)
                         THEN [assigned EXCEPT ![i][new_col.v] = Derived]
                         ELSE assigned
          /\ ret' = [op |-> "transfer", ind |-> i,
                     args |-> [func |-> func, new_col |-> new_col],
                     out |-> r.out, called |-> r.called]
    /\ pc' = "returned"
    /\ nops' = IF new_col # None THEN nops + 1 ELSE nops
    /\ UNCHANGED <<kind, quote>>

\* indicator.get_metric_series(metric)
GetMetricSeries(i, metric) ==
    /\ pc = "idle"
    /\ ret' = [op |-> "get_metric_series", ind |-> i, args |-> [metric |-> metric],
               out |-> IF kind = "pandas"
                       THEN PandasOrderIndicator_get_metric_series(data[i], metric)
                       ELSE NumpyOrderIndicator_get_metric_series(data[i], metric)]
    /\ pc' = "returned"
    /\ UNCHANGED <<kind, data, assigned, quote, nops>>

\* indicator.to_series()
ToSeries(i) ==
    /\ pc = "idle"
    /\ ret' = [op |-> "to_series", ind |-> i, args |-> None,
               out |-> IF kind = "pandas"
                       THEN PandasOrderIndicator_to_series(data[i])
                       ELSE NumpyOrderIndicator_to_series(data[i])]
    /\ pc' = "returned"
    /\ UNCHANGED <<kind, data, assigned, quote, nops>>

\* A.add(B, fill_value) on two single metrics of the backend
MetricAdd(a, b, fill_value) ==
    /\ pc = "idle"
    /\ ret' = [op |-> "add", ind |-> "none",
               args |-> [self |-> Dict(a), other |-> Dict(b), fill_value |-> fill_value],
               out |-> IF kind = "pandas"
                       THEN PandasSingleMetric_add(PandasSingleMetric(Dict(a)),
                                                   PandasSingleMetric(Dict(b)), fill_value)
                       ELSE IndexData_add(IndexData_Series(Dict(a)),
                                          IndexData_Series(Dict(b)), fill_value)]
    /\ pc' = "returned"
    /\ UNCHANGED <<kind, data, assigned, quote, nops>>

\* a single metric of the backend, built from a mapping
Metric(m) == IF kind = "pandas" THEN PandasSingleMetric(Dict(m)) ELSE IndexData_Series(Dict(m))

\* c - A, c + A and A + c for a single metric A of the backend and a scalar c
RSub(a, c) ==
    /\ pc = "idle"
    /\ ret' = [op |-> "rsub", ind |-> "none", args |-> [self |-> Dict(a), other |-> Float(c)],
               out |-> Py_sub(Float(c), Metric(a))]
    /\ pc' = "returned"
    /\ UNCHANGED <<kind, data, assigned, quote, nops>>
RAdd(a, c) ==
    /\ pc = "idle"
    /\ ret' = [op |-> "radd", ind |-> "none", args |-> [self |-> Dict(a), other |-> Float(c)],
               out |-> Py_add(Float(c), Metric(a))]
    /\ pc' = "returned"
    /\ UNCHANGED <<kind, data, assigned, quote, nops>>
Add(a, c) ==
    /\ pc = "idle"
    /\ ret' = [op |-> "add_scalar", ind |-> "none",
               args |-> [self |-> Dict(a), other |-> Float(c)],
               out |-> Py_add(Metric(a), Float(c))]
    /\ pc' = "returned"
    /\ UNCHANGED <<kind, data, assigned, quote, nops>>

\* XOrderIndicator.sum_all_indicators(order_indicator, indicators, metrics, fill_value)
SumAllIndicators(order_indicator, indicators, metrics, fill_value) ==
    /\ pc = "idle" /\ nops < MaxOps
    /\ LET r == IF kind = "pandas"
                THEN PandasOrderIndicator_sum_all_indicators(
                         data, order_indicator, indicators, metrics, fill_value)
                ELSE NumpyOrderIndicator_sum_all_indicators(
                         data, order_indicator, indicators, metrics, fill_value)
       IN /\ data' = r.data
          /\ assigned' = [assigned EXCEPT ![order_indicator] =
                             [n \in Names |-> IF n \in r.done THEN Derived ELSE @[n]]]
          /\ ret' = [op |-> "sum_all_indicators", ind |-> order_indicator,
                     args |-> [indicators |-> indicators, metrics |-> metrics,
                               fill_value |-> fill_value],
                     out |-> r.out]
    /\ pc' = "returned"
    /\ nops' = nops + 1
    /\ UNCHANGED <<kind, quote>>

\* the caller takes the outcome and goes on
Return ==
    /\ pc = "returned"
    /\ pc' = "idle"
    /\ ret' = NoCall
    /\ UNCHANGED <<kind, data, assigned, quote, nops>>

Next ==
    \/ \E i \in Inds, col \in Names, m \in Mappings : Assign(i, col, m)
    \/ \E i \in Inds, func \in Funcs, new_col \in NewCols : Transfer(i, func, new_col)
    \/ \E i \in Inds, metric \in Names : GetMetricSeries(i, metric)
    \/ \E i \in Inds : ToSeries(i)
    \/ \E a \in Mappings, b \in Mappings, fill_value \in FillValues : MetricAdd(a, b, fill_value)
    \/ \E a \in Mappings, c \in Scalars : RSub(a, c)
    \/ \E a \in Mappings, c \in Scalars : RAdd(a, c)
    \/ \E a \in Mappings, c \in Scalars : Add(a, c)
    \/ \E indicators \in IndicatorLists, metrics \in MetricArgs, fill_value \in FillValues :
            SumAllIndicators("target", indicators, metrics, fill_value)
    \/ Return

Spec == Init /\ [][Next]_vars

(***************************************************************************)
(* The quote engine: built once from a panel, then only read.              *)
(***************************************************************************)
QuoteInit ==
    /\ kind \in Kinds
    /\ \E quote_df \in QuoteDfs :
          quote = IF kind = "pandas" THEN PandasQuote(quote_df) ELSE CN1min_NumpyQuote(quote_df)
    /\ data = [i \in Inds |-> <<>>]
    /\ assigned = [i \in Inds |-> [n \in Names |-> Unwritten]]
    /\ pc = "idle"
    /\ ret = NoCall
    /\ nops = 0

FieldArgs == {None} \cup {Str(Fields[c]) : c \in 1..Len(Fields)}

\* quote.get_data(stock_id, start_time, end_time, fields, method)
GetData(stock_id, start_time, end_time, fields, method) ==
    /\ pc = "idle"
    /\ ret' = [op |-> "get_data", ind |-> "none",
               args |-> [stock_id |-> stock_id, start_time |-> start_time,
                         end_time |-> end_time, fields |-> fields, method |-> method],
               out |-> IF kind = "pandas"
                       THEN PandasQuote_get_data(quote, stock_id, start_time, end_time,
                                                 fields, method)
                       ELSE CN1min_NumpyQuote_get_data(quote, stock_id, start_time, end_time,
                                                       fields, method)]
    /\ pc' = "returned"
    /\ UNCHANGED <<kind, data, assigned, quote, nops>>

QuoteNext ==
    \/ \E stock_id \in Stocks, start_time \in Times, end_time \in Times,
          fields \in FieldArgs, method \in Methods :
            GetData(stock_id, start_time, end_time, fields, method)
    \/ Return

QuoteSpec == QuoteInit /\ [][QuoteNext]_vars

(***************************************************************************)
(* Properties.                                                             *)
(***************************************************************************)
Returned(op) == pc = "returned" /\ ret.op = op
\* the series inside a stored single metric of either backend
SeriesOf(o) == IF o.cls = "PandasSingleMetric" THEN o.metric ELSE o
\* a plain series that holds exactly the labels and values of mapping m
SeriesIsMapping(s, m) ==
    /\ s.cls = "pd.Series"
    /\ Len(s.index) = Cardinality(DOMAIN m)
    /\ LabelsOf(s) = DOMAIN m
    /\ \A i \in 1..Len(s.index) : s.values[i] = m[s.index[i]]
\* the names a metrics argument asks for
Requested(metrics) ==
    IF metrics.cls = "str" THEN {metrics.v}
    ELSE {metrics.items[k] : k \in 1..Len(metrics.items)}

\* C1: in both quote backends, get_data for an entity id that is not in the
\* backend's table, with method unset, returns None and raises nothing.
C1_UnknownEntityIsNoData ==
    (Returned("get_data") /\ ret.args.stock_id \notin DOMAIN quote /\ ret.args.method = None)
        => ret.out = None

\* C2: in both order-indicator backends, get_metric_series(name) for a name
\* the indicator does not hold returns an empty series and never raises.
C2_AbsentNameIsEmptySeries ==
    (Returned("get_metric_series") /\ ret.args.metric \notin OD_keys(data[ret.ind]))
        => ret.out = pd_Series_empty

\* C3: sum_all_indicators with an empty indicators list does not fail and
\* leaves in target, under every requested name, a metric with zero
\* entries, in both backends and for every fill_value.
C3_EmptyListGivesEmptyMetrics ==
    (Returned("sum_all_indicators") /\ ret.args.indicators = <<>>)
        => /\ ret.out = None
           /\ \A n \in Requested(ret.args.metrics) :
                 /\ n \in OD_keys(data[ret.ind])
                 /\ IsMetric(OD_get(data[ret.ind], n))
                 /\ Len(SeriesOf(OD_get(data[ret.ind], n)).index) = 0
                 /\ Len(SeriesOf(OD_get(data[ret.ind], n)).values) = 0
C3_Witness ==
    /\ Returned("sum_all_indicators")
    /\ ret.args.indicators = <<>>
    /\ ret.args.metrics = [cls |-> "list", items |-> <<"x", "y">>]
    /\ ret.args.fill_value = None
    /\ OD_keys(data[ret.ind]) = {"x", "y"}

\* the left fold of add(., fill_value) over a sequence of metrics
RECURSIVE LeftFoldAdd(_, _, _)
LeftFoldAdd(acc, ms, fill_value) ==
    IF ms = <<>> THEN acc
    ELSE LeftFoldAdd(IF acc.cls = "PandasSingleMetric"
                     THEN PandasSingleMetric_add(acc, Head(ms), fill_value)
                     ELSE IndexData_add(acc, Head(ms), fill_value),
                     Tail(ms), fill_value)
EmptyMetric == IF kind = "pandas" THEN PandasSingleMetric(Dict(EmptyMap)) ELSE IndexData_Series_empty
\* the metrics the indicators of a list hold under name n, in list order
HeldMetrics(D, indicators, n) == [k \in 1..Len(indicators) |-> OD_get(D[indicators[k]], n)]
\* the children of the scenario: {s1: 5} and {s1: NaN, s2: 3}
IsScenario(ms) ==
    /\ Len(ms) = 2
    /\ SeriesIsMapping(to_pd_series(SeriesOf(ms[1])), [l \in {1} |-> Num(5)])
    /\ SeriesIsMapping(to_pd_series(SeriesOf(ms[2])), [l \in {1, 2} |-> IF l = 1 THEN NaN ELSE Num(3)])

\* C4: for a non-empty indicators list in which every indicator holds a
\* metric under each requested name, sum_all_indicators assigns to target,
\* under that name, the left fold of add(., fill_value) over the indicators
\* in list order starting from an empty metric; children {s1: 5} and
\* {s1: NaN, s2: 3} with fill_value = 0 give {s1: 5, s2: 3}.
C4_SumIsLeftFold ==
    [][(/\ pc = "idle"
        /\ ret'.op = "sum_all_indicators"
        /\ ret'.args.indicators # <<>>
        /\ \A n \in Requested(ret'.args.metrics) :
              \A k \in 1..Len(ret'.args.indicators) :
                 /\ n \in OD_keys(data[ret'.args.indicators[k]])
                 /\ IsMetric(OD_get(data[ret'.args.indicators[k]], n)))
       => /\ ret'.out = None
          /\ \A n \in Requested(ret'.args.metrics) :
                LET ms == HeldMetrics(data, ret'.args.indicators, n)
                IN /\ n \in OD_keys(data'[ret'.ind])
                   /\ OD_get(data'[ret'.ind], n) = LeftFoldAdd(EmptyMetric, ms, ret'.args.fill_value)
                   /\ (IsScenario(ms) /\ ret'.args.fill_value = Float(Num(0)))
                         => SeriesIsMapping(to_pd_series(SeriesOf(OD_get(data'[ret'.ind], n))),
                                            [l \in {1, 2} |-> IF l = 1 THEN Num(5) ELSE Num(3)])
      ]_vars
C4_Witness ==
    /\ Returned("sum_all_indicators")
    /\ ret.args.indicators = <<"ind1", "ind2">>
    /\ ret.args.metrics = Str("x")
    /\ ret.args.fill_value = Float(Num(0))
    /\ ret.out = None
    /\ IsScenario(HeldMetrics(data, ret.args.indicators, "x"))
    /\ SeriesIsMapping(to_pd_series(SeriesOf(OD_get(data["target"], "x"))),
                       [l \in {1, 2} |-> IF l = 1 THEN Num(5) ELSE Num(3)])

\* the value a side contributes at label l: fill_value when the label is
\* absent or its value is NaN
Contribution(m, l, fill_value) ==
    IF l \in DOMAIN m /\ ~m[l].nan THEN m[l].v ELSE fill_value.v.v

\* C5: for all single metrics A and B and a given fill_value, A.add(B,
\* fill_value) has exactly the union of the labels, and every label carries
\* the number a + b with a missing side (absent or NaN) replaced by
\* fill_value.
C5_AddFillsEveryLabel ==
    (Returned("add") /\ ret.args.fill_value # None)
        => LET a == ret.args.self.map
               b == ret.args.other.map
               s == SeriesOf(ret.out)
           IN /\ IsMetric(ret.out)
              /\ LabelsOf(s) = DOMAIN a \cup DOMAIN b
              /\ Len(s.index) = Cardinality(DOMAIN a \cup DOMAIN b)
              /\ \A i \in 1..Len(s.index) :
                    s.values[i] = Num(Contribution(a, s.index[i], ret.args.fill_value)
                                      + Contribution(b, s.index[i], ret.args.fill_value))

\* C6: transfer(func, new_col) with a declared parameter name that the
\* indicator holds no metric for fails with a lookup error; func is not
\* called and the mapping of every indicator is what it was.
C6_TransferMissingNameFails ==
    [][(/\ pc = "idle"
        /\ ret'.op = "transfer"
        /\ \E k \in 1..Len(ret'.args.func.params) :
              ret'.args.func.params[k] \notin OD_keys(data[ret'.ind]))
       => /\ ret'.out = Raise("KeyError")
          /\ ~ret'.called
          /\ data' = data
      ]_vars
C6_Witness ==
    /\ Returned("transfer")
    /\ ret.args.func.name = "add_xy"
    /\ ret.args.new_col = Str("y")
    /\ OD_keys(data[ret.ind]) = {"x"}
    /\ ret.out = Raise("KeyError")

\* C7: a successful transfer(func, new_col) with new_col given stores func's
\* result under new_col, changes no other name and no other indicator, and
\* returns None; with new_col omitted it returns func's result and leaves
\* every mapping unchanged.
C7_TransferStoresOrReturns ==
    [][(pc = "idle" /\ ret'.op = "transfer" /\ ~IsExc(ret'.out))
       => LET i == ret'.ind
              new_col == ret'.args.new_col
              result == CallFunc(ret'.args.func, data[i])
          IN IF new_col # None
             THEN /\ ret'.out = None
                  /\ new_col.v \in OD_keys(data'[i])
                  /\ OD_get(data'[i], new_col.v) = result
                  /\ OD_keys(data'[i]) = OD_keys(data[i]) \cup {new_col.v}
                  /\ \A n \in OD_keys(data[i]) \ {new_col.v} :
                        OD_get(data'[i], n) = OD_get(data[i], n)
                  /\ \A j \in Inds \ {i} : data'[j] = data[j]
             ELSE /\ ret'.out = result
                  /\ data' = data
      ]_vars
C7_Witness ==
    /\ Returned("transfer")
    /\ ret.args.func.name = "rsub_x"
    /\ ret.args.new_col = Str("y")
    /\ ret.out = None
    /\ OD_keys(data[ret.ind]) = {"x", "y"}
    /\ SeriesOf(OD_get(data[ret.ind], "x")).values = <<NaN, Num(3)>>
    /\ SeriesOf(OD_get(data[ret.ind], "y")).values = <<NaN, Num(2)>>

\* the names of indicator i that assign has written, when assign alone has
\* written i
OnlyAssigned(i) == \A n \in Names : assigned[i][n].cls \in {"dict", "unwritten"}

\* C8: on an indicator written by assign alone, get_metric_series(name) and
\* to_series()[name] equal the mapping most recently assigned to name (so
\* an assign to another name since has not changed it), and to_series()
\* holds exactly the names assigned so far, in both backends.
C8_AssignRoundTrip ==
    /\ (Returned("get_metric_series") /\ OnlyAssigned(ret.ind)
        /\ assigned[ret.ind][ret.args.metric].cls = "dict")
          => SeriesIsMapping(ret.out, assigned[ret.ind][ret.args.metric].map)
    /\ (Returned("to_series") /\ OnlyAssigned(ret.ind))
          => /\ ret.out.cls = "dict"
             /\ {ret.out.items[k].k : k \in 1..Len(ret.out.items)}
                   = {n \in Names : assigned[ret.ind][n].cls = "dict"}
             /\ Len(ret.out.items) = Cardinality({n \in Names : assigned[ret.ind][n].cls = "dict"})
             /\ \A k \in 1..Len(ret.out.items) :
                   SeriesIsMapping(ret.out.items[k].v, assigned[ret.ind][ret.out.items[k].k].map)
C8_Witness ==
    /\ Returned("to_series")
    /\ OnlyAssigned(ret.ind)
    /\ Len(ret.out.items) = 2
    /\ ret.out.items[1].k = "y"
    /\ assigned[ret.ind]["x"] = Dict([l \in {1, 2} |-> IF l = 1 THEN NaN ELSE Num(3)])
    /\ assigned[ret.ind]["y"] = Dict([l \in {1} |-> Num(5)])

\* C9: get_data with no field and a method fails with a configuration error
\* in both quote backends, for every entity id and every time range; the
\* check comes before any "no data" result.
C9_MethodWithoutFieldFails ==
    (Returned("get_data") /\ ret.args.fields = None /\ ret.args.method # None)
        => ret.out = Raise("ValueError")
C9_Witness ==
    /\ Returned("get_data")
    /\ ret.args.fields = None
    /\ ret.args.method = Str("sum")
    /\ ret.args.stock_id \notin DOMAIN quote
    /\ ret.args.start_time < ret.args.end_time
    /\ ret.out = Raise("ValueError")

C10_WitnessAbsent ==
    /\ Returned("get_data")
    /\ kind = "numpy"
    /\ ret.args.stock_id = "A"
    /\ ret.args.start_time = ret.args.end_time
    /\ ret.args.start_time \notin {quote["A"].index[r] : r \in 1..Len(quote["A"].index)}
    /\ ret.out = None

\* the method names CN1min_NumpyQuote._agg_data has a branch for
SupportedMethods ==
    {Str("sum"), Str("mean"), Str("last"), Str("all"), Str("any"),
     [cls |-> "function", v |-> "ts_data_last"]}
\* the rows of the entity's table that the closed range [start, end] selects
SelectedRows(q, stock_id, start_time, end_time) ==
    {r \in 1..Len(q[stock_id].index) :
        start_time <= q[stock_id].index[r] /\ q[stock_id].index[r] <= end_time}

\* C11: CN1min_NumpyQuote.get_data with a known entity, a field and a method
\* name that is none of sum, mean, last, all, any, last-non-missing fails
\* with a configuration error: for single-timestamp requests and for ranges
\* that select no row, one row or several rows alike.
C11_UnsupportedMethodFails ==
    (/\ Returned("get_data")
     /\ kind = "numpy"
     /\ ret.args.stock_id \in DOMAIN quote
     /\ ret.args.fields # None
     /\ ret.args.method # None
     /\ ret.args.method \notin SupportedMethods)
        => ret.out = Raise("ValueError")
\* the part of C11 the code does keep: a range that is no single timestamp
\* and selects several rows
C11_SeveralRowsFails ==
    (/\ Returned("get_data")
     /\ kind = "numpy"
     /\ ret.args.stock_id \in DOMAIN quote
     /\ ret.args.fields # None
     /\ ret.args.method # None
     /\ ret.args.method \notin SupportedMethods
     /\ ~if_single_data(ret.args.start_time, ret.args.end_time)
     /\ Cardinality(SelectedRows(quote, ret.args.stock_id, ret.args.start_time,
                                 ret.args.end_time)) > 1)
        => ret.out = Raise("ValueError")

\* the first value of a column slice that is a number, None when there is none
FirstValid(seq) ==
    IF \A k \in 1..Len(seq) : seq[k].nan THEN None
    ELSE Float(seq[CHOOSE k \in 1..Len(seq) :
                      ~seq[k].nan /\ \A j \in 1..(k - 1) : seq[j].nan])

\* C12: with method = ts_data_last on a column slice of several rows,
\* CN1min_NumpyQuote.get_data returns the first value of the slice that is
\* not NaN, and None when every value is NaN; it never returns NaN.
C12_LastNonMissingSkipsNaN ==
    (/\ Returned("get_data")
     /\ kind = "numpy"
     /\ ret.args.stock_id \in DOMAIN quote
     /\ ret.args.fields # None
     /\ ret.args.method = [cls |-> "function", v |-> "ts_data_last"]
     /\ ~if_single_data(ret.args.start_time, ret.args.end_time)
     /\ Cardinality(SelectedRows(quote, ret.args.stock_id, ret.args.start_time,
                                 ret.args.end_time)) > 1)
        => LET tbl == quote[ret.args.stock_id]
               c == CHOOSE c \in 1..Len(tbl.columns) : tbl.columns[c] = ret.args.fields.v
               rows == SelectedRows(quote, ret.args.stock_id, ret.args.start_time,
                                    ret.args.end_time)
               slice == [k \in 1..Cardinality(rows) |->
                            tbl.values[CHOOSE r \in rows :
                                          Cardinality({q \in rows : q < r}) = k - 1][c]]
           IN /\ ret.out = FirstValid(slice)
              /\ ret.out # Float(NaN)

\* a single metric of the state's backend that holds exactly the labels of
\* mapping a, each with the value f gives for it
MetricIsMapping(o, a, f) ==
    /\ o.cls = (IF kind = "pandas" THEN "PandasSingleMetric" ELSE "IndexData.Series")
    /\ Len(SeriesOf(o).index) = Cardinality(DOMAIN a)
    /\ LabelsOf(SeriesOf(o)) = DOMAIN a
    /\ \A i \in 1..Len(SeriesOf(o).index) :
          SeriesOf(o).values[i] = f[SeriesOf(o).index[i]]

\* C13: for a single metric A and a scalar c, c - A holds c - a_i at every
\* label of A (never a_i - c), c + A holds a_i + c at every label, which is
\* what A + c holds, and a label whose a_i is missing stays missing in all
\* three.
C13_ReflectedOps ==
    /\ Returned("rsub") =>
          MetricIsMapping(ret.out, ret.args.self.map,
              [l \in DOMAIN ret.args.self.map |->
                  IF ret.args.self.map[l].nan THEN NaN
                  ELSE Num(ret.args.other.v.v - ret.args.self.map[l].v)])
    /\ (Returned("radd") \/ Returned("add_scalar")) =>
          MetricIsMapping(ret.out, ret.args.self.map,
              [l \in DOMAIN ret.args.self.map |->
                  IF ret.args.self.map[l].nan THEN NaN
                  ELSE Num(ret.args.self.map[l].v + ret.args.other.v.v)])
C13_Witness ==
    /\ Returned("rsub")
    /\ kind = "pandas"
    /\ ret.args.self.map = [l \in {1, 2} |-> IF l = 1 THEN NaN ELSE Num(3)]
    /\ ret.args.other = Float(Num(5))
    /\ ret.out.cls = "PandasSingleMetric"
    /\ ret.out.metric.values = <<NaN, Num(2)>>
C13_WitnessRAdd ==
    /\ Returned("radd")
    /\ kind = "pandas"
    /\ ret.args.self.map = [l \in {1, 2} |-> IF l = 1 THEN NaN ELSE Num(3)]
    /\ ret.args.other = Float(Num(5))
    /\ ret.out.metric.values = <<NaN, Num(8)>>

\* the class of the single metrics of the state's backend
MetricClass == IF kind = "pandas" THEN "PandasSingleMetric" ELSE "IndexData.Series"

\* C14: in every state reached from empty indicators by assign, transfer
\* (with or without new_col, for any func) and sum_all_indicators, every
\* value an indicator stores is a single metric of the indicator's own
\* backend, so get_metric_series of a stored name and to_series do not fail.
C14_StoredValuesAreMetrics ==
    /\ \A i \in Inds : \A k \in 1..Len(data[i]) : data[i][k].v.cls = MetricClass
    /\ (Returned("get_metric_series") /\ ret.args.metric \in OD_keys(data[ret.ind]))
          => ~IsExc(ret.out)
    /\ Returned("to_series") => ~IsExc(ret.out)
\* what is left of C14 without transfer's new_col: assign and
\* sum_all_indicators store single metrics of the backend only
C14_AssignAndSumStoreMetrics ==
    [][(ret'.op \in {"assign", "sum_all_indicators"}
        /\ \A i \in Inds : \A k \in 1..Len(data[i]) : data[i][k].v.cls = MetricClass)
       => \A i \in Inds : \A k \in 1..Len(data'[i]) : data'[i][k].v.cls = MetricClass
      ]_vars

\* name n has the same value, or the same absence, in mappings d and e
SameAt(d, e, n) ==
    /\ n \in OD_keys(d) <=> n \in OD_keys(e)
    /\ n \in OD_keys(d) => OD_get(d, n) = OD_get(e, n)

\* C15: sum_all_indicators changes nothing but the requested names of
\* target: every other indicator, in the list or not, keeps its names and
\* values, and every name of target that was not requested keeps its value
\* (or its absence); this holds for calls that fail as well.
C15_SumChangesOnlyRequested ==
    [][(pc = "idle" /\ ret'.op = "sum_all_indicators")
       => /\ \A i \in Inds \ {ret'.ind} : data'[i] = data[i]
          /\ \A n \in Names \ Requested(ret'.args.metrics) :
                SameAt(data[ret'.ind], data'[ret'.ind], n)
      ]_vars
C15_Witness ==
    /\ Returned("sum_all_indicators")
    /\ nops = MaxOps
    /\ ret.args.indicators = <<"ind1">>
    /\ ret.args.metrics = Str("x")
    /\ ret.out = None
    /\ assigned["target"]["y"] = Dict([l \in {1} |-> Num(5)])
    /\ assigned["ind1"]["x"] = Dict([l \in {1, 2} |-> IF l = 1 THEN NaN ELSE Num(3)])
    /\ OD_keys(data["target"]) = {"x", "y"}
    /\ OD_keys(data["ind1"]) = {"x"}

\* the positions of a metrics list whose name some indicator of the list lacks
MissingAt(D, indicators, items) ==
    {k \in 1..Len(items) :
        \E j \in 1..Len(indicators) : items[k] \notin OD_keys(D[indicators[j]])}
\* the first of them
FirstMissing(D, indicators, items) ==
    CHOOSE k \in MissingAt(D, indicators, items) :
        \A j \in MissingAt(D, indicators, items) : k <= j
\* a call of sum_all_indicators with a list of names, one of which some
\* indicator of the list lacks
SumWithMissingName ==
    /\ pc = "idle"
    /\ ret'.op = "sum_all_indicators"
    /\ ret'.args.metrics.cls = "list"
    /\ MissingAt(data, ret'.args.indicators, ret'.args.metrics.items) # {}
\* the call fails with KeyError; target holds the new sums of the names before
\* the first missing one, and the names from there on are as they were
SumStopsAtFirstMissing ==
    LET items == ret'.args.metrics.items
        f == FirstMissing(data, ret'.args.indicators, items)
    IN /\ ret'.out = Raise("KeyError")
       /\ \A k \in 1..(f - 1) :
             /\ items[k] \in OD_keys(data'[ret'.ind])
             /\ OD_get(data'[ret'.ind], items[k]) =
                   LeftFoldAdd(EmptyMetric, HeldMetrics(data, ret'.args.indicators, items[k]),
                               ret'.args.fill_value)
       /\ \A k \in f..Len(items) : SameAt(data[ret'.ind], data'[ret'.ind], items[k])

\* C16: when sum_all_indicators is called with a list of metric names and
\* some indicator of the list lacks one of them, the call fails with a lookup
\* error at the first such name in list order: target holds the newly summed
\* metric for every requested name before it, and that name and all later
\* ones keep the value (or the absence) they had.
C16_SumFailsAtFirstMissing ==
    [][SumWithMissingName => SumStopsAtFirstMissing]_vars
\* C16 over indicators that hold single metrics only
C16_OverMetricsOnly ==
    [][(SumWithMissingName
        /\ \A i \in Inds : \A k \in 1..Len(data[i]) : data[i][k].v.cls = MetricClass)
       => SumStopsAtFirstMissing]_vars
C16_PartialWitness ==
    /\ Returned("sum_all_indicators")
    /\ nops = MaxOps
    /\ ret.args.indicators = <<"ind1">>
    /\ ret.args.metrics = [cls |-> "list", items |-> <<"x", "y">>]
    /\ ret.out = Raise("KeyError")
    /\ OD_keys(data["ind1"]) = {"x"}
    /\ OD_keys(data["target"]) = {"x"}
    /\ assigned["target"]["x"] = Derived

====
